---------------------------- MODULE Spec2Model ----------------------------
(***************************************************************************)
(* Model of the video-search integration of Director:                      *)
(*   backend/director/agents/web_search_agent.py  (WebSearchAgent)         *)
(*   backend/director/tools/serp.py               (SerpAPI)                *)
(*                                                                         *)
(* One behaviour is one call of WebSearchAgent.run().  The call is cut     *)
(* into steps at the points where something outside the call can observe   *)
(* it: a snapshot pushed to the session (push_update), an HTTP request     *)
(* sent to the backend, the return of search_videos, one iteration of the  *)
(* fill loop, the return of run() or an exception leaving it.              *)
(***************************************************************************)
EXTENDS Integers, Sequences, FiniteSets, TLC

VARIABLES
    engine,             \* run() argument
    job_type,           \* run() argument
    common_config,      \* run() argument: [query, has_count, count]
    job_config,         \* run() argument: [given, duration, collection_id]
    env_key,            \* os.getenv("SERP_API_KEY")
    pc,                 \* position of the call
    search_engine_tool, \* NONE or "SerpAPI": the provider run() constructed
    videos_content,     \* the VideosContent object of the run (mutated in place)
    snapshots,          \* what push_update has emitted, in order
    params,             \* query parameters built by search_videos
    retry_total,        \* Retry.total left for the current session.get
    history,            \* Retry.history: the failed attempts of the current get
    attempts,           \* HTTP requests the backend has received
    http_status,        \* status of the response session.get returned, 0 if none
    get_exc,            \* requests exception session.get raised, NONE if none
    raw_results,        \* response.json()["video_results"] of search_videos
    results,            \* what search_videos returned
    exc,                \* exception raised by search_videos inside the try
    idx,                \* enumerate() index of the fill loop (0-based)
    uploaded_videos,    \* the filled VideoData, in order
    response,           \* AgentResponse returned by run()
    raised              \* exception that left run(), NoExc if none

\* Two calls of run() at once (SpecTwo): each call's locals, and the objects
\* the calls create and write
VARIABLES
    cruns,              \* per call: the local variables of run() and callees
    cheap,              \* the VideosContent objects created so far, by id
    ctools,             \* the SerpAPI objects created so far, by id
    cout,               \* per agent instance: output_message.content (ids)
    cstream             \* per agent instance: what push_update has emitted

vars == <<engine, job_type, common_config, job_config, env_key, pc,
          search_engine_tool, videos_content, snapshots, params, retry_total,
          history, attempts, http_status, get_exc, raw_results, results, exc,
          idx, uploaded_videos, response, raised,
          cruns, cheap, ctools, cout, cstream>>

concVars == <<cruns, cheap, ctools, cout, cstream>>

NONE == "None"

-----------------------------------------------------------------------------
(* Bounds of the model *)

\* counts 1..MaxCount are tried in the full run; SpecPending tries 1..MAX_COUNT
MaxCount == 3
\* longest "video_results" array the backend answers with
MaxRaw == 2


-----------------------------------------------------------------------------
(* Values *)

\* A URL is kept in the parts urlparse() splits it into; its text is
\* "https://" netloc "/" path[1] "/" ... "?" query.  The empty string is EmptyUrl.
Url(netloc, path, query) == [netloc |-> netloc, path |-> path, query |-> query]

EmptyUrl == Url("", <<>>, "")

\* the parts of the URLs below that contain the word w as a substring
PartsWith(w) ==
    CASE w = "channel"     -> {"channel"}
      [] w = "user"        -> {"user", "v=user42"}
      [] w = "youtube.com" -> {"www.youtube.com", "youtube.com"}
      [] OTHER             -> {}

\* Python: w in url   (w is a word that does not span two parts of a URL)
InText(w, url) ==
    \/ url.netloc \in PartsWith(w)
    \/ \E i \in 1..Len(url.path) : url.path[i] \in PartsWith(w)
    \/ url.query \in PartsWith(w)

\* Python: "youtube.com/watch" in url
HasWatchPage(url) ==
    /\ url.netloc \in PartsWith("youtube.com")
    /\ Len(url.path) >= 1
    /\ url.path[1] = "watch"

\* Python: urlparse(url).path.startswith("/" + seg + "/")
PathStartsWith(url, seg) == Len(url.path) >= 2 /\ url.path[1] = seg

\* Python truth value of a string or None / of a URL string
Truthy(v) == v /= "" /\ v /= NONE

TruthyUrl(url) == url /= EmptyUrl

\* Python: d.get(key, default)
Get(d, key, default) == IF key \in DOMAIN d THEN d[key] ELSE default

WatchUrl      == Url("www.youtube.com", <<"watch">>, "v=abc")
ChannelUrl    == Url("www.youtube.com", <<"channel", "UC123">>, "")
PageUrl       == Url("vimeo.com", <<"123">>, "")
FileUrl       == Url("cdn.example.com", <<"v.mp4">>, "")
CollectionUrl == Url("www.youtube.com", <<"c", "cats", "clip">>, "")
UserUrl       == Url("www.youtube.com", <<"user", "cats">>, "")

\* The records the backend puts in "video_results" (a key may be missing).
RawWatch      == [link |-> WatchUrl, title |-> "Cats", thumbnail |-> "t1"]
RawChannel    == [link |-> ChannelUrl, video_link |-> FileUrl, title |-> "Chan"]
RawDirect     == [link |-> PageUrl, video_link |-> FileUrl]
RawCollection == [link |-> PageUrl, video_link |-> CollectionUrl, title |-> "Clip"]
RawPage       == [link |-> PageUrl, title |-> "Page"]
RawUser       == [link |-> UserUrl, video_link |-> FileUrl, title |-> "User"]

RawKinds == {RawWatch, RawChannel, RawDirect, RawCollection, RawPage, RawUser}

\* all sequences over S of length at most n
RECURSIVE SeqsUpTo(_, _)
SeqsUpTo(S, n) ==
    IF n = 0 THEN {<<>>}
    ELSE LET shorter == SeqsUpTo(S, n - 1)
         IN  shorter \cup {Append(s, x) : s \in {t \in shorter : Len(t) = n - 1}, x \in S}

\* the bodies the backend can answer a search with
Bodies == SeqsUpTo(RawKinds, MaxRaw)


-----------------------------------------------------------------------------
(* SerpAPI: backend/director/tools/serp.py *)

\* Retry(total=3, ...)
RetryTotal == 3

\* Retry(..., status_forcelist=[429, 500, 502, 503, 504])
StatusForcelist == {429, 500, 502, 503, 504}

DurationMapping == [short |-> "dur:s", medium |-> "dur:m", long |-> "dur:l"]

\* params as search_videos builds them; tbs is NONE when the key is not set
BuildParams(query, count, duration) ==
    [q |-> query, tbm |-> "vid", num |-> count, hl |-> "en", gl |-> "us",
     tbs |-> IF Truthy(duration) THEN DurationMapping[duration] ELSE NONE]

NoParams == [q |-> NONE, tbm |-> NONE, num |-> 0, hl |-> NONE, gl |-> NONE, tbs |-> NONE]

\* What one HTTP attempt can meet: a response with a status code, or a
\* transport failure before any response.
StatusCodes == {200, 404, 429, 503}

Outcomes ==
    {[kind |-> "status", code |-> c] : c \in StatusCodes}
        \cup {[kind |-> "connect_timeout", code |-> 0],
              [kind |-> "connection_error", code |-> 0]}

\* a forcelist that also holds 404
IsRetryAlso404(code) == code \in StatusForcelist \cup {404}

\* urllib3 Retry.is_retry for a GET: the response's status is in status_forcelist
IsRetry(code) == code \in StatusForcelist

\* a comparison that lets one more attempt through
IsExhaustedLate(total) == total < -1

\* urllib3 Retry.is_exhausted: the count left after the decrement is negative
IsExhausted(total) == total < 0

\* the failed attempt is retried by the adapter (a transport failure, or a
\* response whose status is_retry)
IsRetriable(o) == o.kind /= "status" \/ IsRetry(o.code)

\* Exceptions: [type, status_code, cause]; status_code is the status of
\* e.response (0 when there is no response), cause the wrapped exception.
Exc(type, status_code, cause) ==
    [type |-> type, status_code |-> status_code, cause |-> cause]

NoExc == Exc(NONE, 0, NONE)

\* the requests exception session.get raises once the retries are used up
ExhaustedExc(o) ==
    CASE o.kind = "status"          -> Exc("RetryError", 0, NONE)
      [] o.kind = "connect_timeout" -> Exc("ConnectTimeout", 0, NONE)
      [] OTHER                      -> Exc("ConnectionError", 0, NONE)

\* response.raise_for_status() raises HTTPError for 4xx and 5xx
RaisesForStatus(code) == code >= 400 /\ code < 600

\* lines 79-80: except RequestException as e: raise RuntimeError(...)
WrapRuntimeError(e) == Exc("RuntimeError", 0, e.type)

\* lines 58-77: the filter over raw_results
KeepsResult(result) ==
    LET link       == Get(result, "link", EmptyUrl)
        video_link == Get(result, "video_link", EmptyUrl)
    IN  /\ ~(InText("channel", link) \/ InText("user", link))
        /\ (HasWatchPage(link) \/ TruthyUrl(video_link))

\* a record that leaves the direct link out
FilteredRecordNoVideoLink(result) ==
    [link       |-> Get(result, "link", EmptyUrl),
     video_link |-> EmptyUrl,
     title      |-> Get(result, "title", NONE),
     thumbnail  |-> Get(result, "thumbnail", NONE),
     duration   |-> Get(result, "duration", NONE)]

FilteredRecord(result) ==
    [link       |-> Get(result, "link", EmptyUrl),
     video_link |-> Get(result, "video_link", EmptyUrl),
     title      |-> Get(result, "title", NONE),
     thumbnail  |-> Get(result, "thumbnail", NONE),
     duration   |-> Get(result, "duration", NONE)]

RECURSIVE FilterResults(_)
FilterResults(raw) ==
    IF raw = <<>> THEN <<>>
    ELSE IF KeepsResult(Head(raw))
         THEN <<FilteredRecord(Head(raw))>> \o FilterResults(Tail(raw))
         ELSE FilterResults(Tail(raw))

-----------------------------------------------------------------------------
(* WebSearchAgent: backend/director/agents/web_search_agent.py *)

SUPPORTED_ENGINES == {"serp"}

\* "default": 5 of the schema and common_config.get("count", 5)
DEFAULT_COUNT == 5
\* "minimum": 1, "maximum": 50 of the schema
MIN_COUNT == 1
MAX_COUNT == 50

\* a check that lets every engine through
EngineUnchecked(e) == TRUE

EngineSupported(e) == e \in SUPPORTED_ENGINES

\* A message is the sequence of the pieces its f-string joins.
MsgSearching   == <<"Searching for videos...">>
MsgNoneStatus  == <<"No valid videos found for upload.">>
MsgNoneReturn  == <<"No valid videos were found for upload.">>
MsgDone        == <<"Video search and upload completed successfully.">>
MsgGeneric     == <<"An error occurred during the video search.">>
MsgTimeout     == <<"The search is taking longer than expected. Please try again.">>
MsgRateLimit   == <<"Rate limit exceeded. Please try again in a few minutes.">>
MsgNoKey       == <<"SERP_API_KEY environment variable is not set.">>
MsgNone        == <<>>
MsgEngine(e)   == <<"Engine '", e, "' is not supported.">>
MsgJobType(j)  == <<"Unsupported job type: ", j, ".">>
\* a message that counts one video too many
MsgUploadedOneMore(n) == <<"Uploaded ", ToString(n + 1), " videos successfully.">>
MsgUploaded(n) == <<"Uploaded ", ToString(n), " videos successfully.">>

VideoData(external_url, name, thumbnail_url, collection_id) ==
    [external_url |-> external_url, name |-> name,
     thumbnail_url |-> thumbnail_url, collection_id |-> collection_id]

\* lines 145-149
Placeholder == VideoData(EmptyUrl, "Loading...", NONE, NONE)

\* a loop that stops one placeholder short
RECURSIVE PlaceholdersShort(_)
PlaceholdersShort(count) ==
    IF count <= 1 THEN <<>> ELSE Append(PlaceholdersShort(count - 1), Placeholder)

\* lines 144-150: for _ in range(count): videos.append(placeholder)
RECURSIVE Placeholders(_)
Placeholders(count) ==
    IF count <= 0 THEN <<>> ELSE Append(Placeholders(count - 1), Placeholder)

VideosContent(status, status_message, videos) ==
    [status |-> status, status_message |-> status_message, videos |-> videos]

NoContent == VideosContent(NONE, MsgNone, <<>>)

AgentResponse(status, message, data) ==
    [status |-> status, message |-> message, data |-> data]

NoResponse == AgentResponse(NONE, MsgNone, <<>>)

\* the classes isinstance(e, cls) holds for
Classes(type) ==
    CASE type = "ConnectTimeout"  -> {"ConnectTimeout", "ConnectionError", "Timeout",
                                      "RequestException", "Exception"}
      [] type = "ReadTimeout"     -> {"ReadTimeout", "Timeout", "RequestException", "Exception"}
      [] type = "ConnectionError" -> {"ConnectionError", "RequestException", "Exception"}
      [] type = "HTTPError"       -> {"HTTPError", "RequestException", "Exception"}
      [] type = "RetryError"      -> {"RetryError", "RequestException", "Exception"}
      [] type = "RuntimeError"    -> {"RuntimeError", "Exception"}
      [] type = "ValueError"      -> {"ValueError", "Exception"}
      [] OTHER                    -> {}

IsInstance(e, cls) == cls \in Classes(e.type)

\* lines 205-211: the message the except clause renders
ErrorMessage(e) ==
    IF IsInstance(e, "Timeout") THEN MsgTimeout
    ELSE IF IsInstance(e, "HTTPError") /\ e.status_code = 429 THEN MsgRateLimit
    ELSE MsgGeneric

\* line 160: video.get("video_link") or video.get("link")
ExternalUrl(video) ==
    IF TruthyUrl(Get(video, "video_link", EmptyUrl))
    THEN Get(video, "video_link", EmptyUrl)
    ELSE Get(video, "link", EmptyUrl)

\* a check that forgets the "/c/" prefix
IsNonVideoYoutubeNoC(url) ==
    /\ InText("youtube.com", Url(url.netloc, <<>>, ""))
    /\ \E prefix \in {"channel", "user"} : PathStartsWith(url, prefix)

\* lines 165-167
IsNonVideoYoutube(url) ==
    /\ InText("youtube.com", Url(url.netloc, <<>>, ""))
    /\ \E prefix \in {"channel", "user", "c"} : PathStartsWith(url, prefix)

\* a video_data that takes the primary link first
FilledVideoLinkFirst(video, collection_id) ==
    VideoData(IF TruthyUrl(Get(video, "link", EmptyUrl))
              THEN Get(video, "link", EmptyUrl)
              ELSE Get(video, "video_link", EmptyUrl),
              Get(video, "title", "Untitled Video"),
              Get(video, "thumbnail", NONE), collection_id)

\* lines 172-177
FilledVideo(video, collection_id) ==
    VideoData(ExternalUrl(video), Get(video, "title", "Untitled Video"),
              Get(video, "thumbnail", NONE), collection_id)


-----------------------------------------------------------------------------
(* The inputs of a run *)

Engines   == {"serp", "bing"}
JobTypes  == {"search_videos", "search_images"}
Durations == {NONE, "", "short", "medium", "long", "huge"}
CollectionIds == {NONE, "col-1"}
EnvKeys   == {NONE, "", "key-1"}

\* common_config with and without the "count" key
CommonConfigs(counts) ==
    {[query |-> "cats"]} \cup {[query |-> "cats", count |-> c] : c \in counts}

\* job_config: None, or a dict with the two keys (a value of None is a missing
\* key); every duration is tried without a collection, every collection
\* without a duration
NoJobConfig == [given |-> FALSE, duration |-> NONE, collection_id |-> NONE]

JobConfigs ==
    {NoJobConfig} \cup
    {[given |-> TRUE, duration |-> d, collection_id |-> NONE] : d \in Durations}
        \cup
    {[given |-> TRUE, duration |-> NONE, collection_id |-> c] : c \in CollectionIds}

InitWith(counts) ==
    /\ engine \in Engines
    /\ job_type \in JobTypes
    /\ common_config \in CommonConfigs(counts)
    /\ job_config \in JobConfigs
    /\ env_key \in EnvKeys
    /\ pc = "start"
    /\ search_engine_tool = NONE
    /\ videos_content = NoContent
    /\ snapshots = <<>>
    /\ params = NoParams
    /\ retry_total = 0
    /\ history = <<>>
    /\ attempts = 0
    /\ http_status = 0
    /\ get_exc = NoExc
    /\ raw_results = <<>>
    /\ results = <<>>
    /\ exc = NoExc
    /\ idx = 0
    /\ uploaded_videos = <<>>
    /\ response = NoResponse
    /\ raised = NoExc
    /\ cruns = <<>>
    /\ cheap = <<>>
    /\ ctools = <<>>
    /\ cout = <<>>
    /\ cstream = <<>>

Init == InitWith(MIN_COUNT..MaxCount)

\* the local variables of run() and _handle_video_search
query         == Get(common_config, "query", NONE)
count         == Get(common_config, "count", DEFAULT_COUNT)
duration      == IF job_config.given THEN job_config.duration ELSE NONE
collection_id == IF job_config.given THEN job_config.collection_id ELSE NONE

providerVars == <<params, retry_total, history, attempts, http_status, get_exc,
                  raw_results, results, exc>>
loopVars     == <<idx, uploaded_videos>>
inputVars    == <<engine, job_type, common_config, job_config, env_key>>

\* output_message.push_update(): the session receives the content as it is now
PushUpdate(content) == Append(snapshots, content)

\* return AgentResponse(...)
Return(r) == /\ response' = r
             /\ pc' = "returned"
             /\ UNCHANGED raised

-----------------------------------------------------------------------------
(* run(): lines 99-133 *)

\* lines 99-104
RunUnsupportedEngine ==
    /\ pc = "start"
    /\ ~EngineSupported(engine)
    /\ Return(AgentResponse("ERROR", MsgEngine(engine), <<>>))
    /\ UNCHANGED <<concVars, inputVars, search_engine_tool, videos_content, snapshots,
                   providerVars, loopVars>>

\* lines 112-118
RunMissingKey ==
    /\ pc = "start"
    /\ EngineSupported(engine)
    /\ ~Truthy(env_key)
    /\ Return(AgentResponse("ERROR", MsgNoKey, <<>>))
    /\ UNCHANGED <<concVars, inputVars, search_engine_tool, videos_content, snapshots,
                   providerVars, loopVars>>

\* lines 119-133, job type other than "search_videos"
RunUnsupportedJobType ==
    /\ pc = "start"
    /\ EngineSupported(engine)
    /\ Truthy(env_key)
    /\ job_type /= "search_videos"
    /\ search_engine_tool' = "SerpAPI"
    /\ Return(AgentResponse("ERROR", MsgJobType(job_type), <<>>))
    /\ UNCHANGED <<concVars, inputVars, videos_content, snapshots, providerVars, loopVars>>

\* lines 119-127 and 137-153: the provider is constructed, the placeholders are
\* built and the first snapshot is pushed
RunPending ==
    /\ pc = "start"
    /\ EngineSupported(engine)
    /\ Truthy(env_key)
    /\ job_type = "search_videos"
    /\ search_engine_tool' = "SerpAPI"
    /\ videos_content' = VideosContent("progress", MsgSearching, Placeholders(count))
    /\ snapshots' = PushUpdate(videos_content')
    /\ pc' = "pending"
    /\ UNCHANGED <<concVars, inputVars, providerVars, loopVars, response, raised>>


-----------------------------------------------------------------------------
(* search_videos(): serp.py lines 23-80, called at line 156 of the agent *)

agentVars == <<concVars, inputVars, search_engine_tool, videos_content, snapshots,
               loopVars, response, raised>>

\* lines 31-50: the parameters are built; an unknown duration raises ValueError
SearchVideosBegin ==
    /\ pc = "pending"
    /\ IF Truthy(duration) /\ duration \notin DOMAIN DurationMapping
       THEN /\ exc' = Exc("ValueError", 0, NONE)
            /\ pc' = "search_raised"
            /\ UNCHANGED <<params, retry_total>>
       ELSE /\ params' = BuildParams(query, count, duration)
            /\ retry_total' = RetryTotal
            /\ pc' = "http"
            /\ UNCHANGED exc
    /\ UNCHANGED <<agentVars, history, attempts, http_status, get_exc,
                   raw_results, results>>

\* line 53, one attempt of session.get under the mounted Retry: the request is
\* sent; a response whose status is not retried is returned; a failed attempt
\* is counted against Retry.total and is repeated unless the total is used up,
\* in which case session.get raises
HttpAttempt ==
    /\ pc = "http"
    /\ \E o \in Outcomes :
          /\ attempts' = attempts + 1
          /\ IF ~IsRetriable(o)
             THEN /\ http_status' = o.code
                  /\ pc' = "got_response"
                  /\ UNCHANGED <<retry_total, history, get_exc>>
             ELSE /\ retry_total' = retry_total - 1
                  /\ history' = Append(history, o)
                  /\ IF IsExhausted(retry_total')
                     THEN /\ get_exc' = ExhaustedExc(o)
                          /\ pc' = "get_raised"
                     ELSE /\ pc' = "http"
                          /\ UNCHANGED get_exc
                  /\ UNCHANGED http_status
    /\ UNCHANGED <<agentVars, params, raw_results, results, exc>>

\* lines 54-77: the response is good; its results are filtered and returned
SearchVideosReturn ==
    /\ pc = "got_response"
    /\ ~RaisesForStatus(http_status)
    /\ \E body \in Bodies :
          /\ raw_results' = body
          /\ results' = FilterResults(body)
    /\ pc' = "search_returned"
    /\ UNCHANGED <<agentVars, params, retry_total, history, attempts,
                   http_status, get_exc, exc>>

\* lines 54 and 79-80: raise_for_status raises HTTPError, or session.get has
\* raised; the except clause raises RuntimeError in its place
SearchVideosFail ==
    /\ \/ /\ pc = "got_response"
          /\ RaisesForStatus(http_status)
          /\ exc' = WrapRuntimeError(Exc("HTTPError", http_status, NONE))
       \/ /\ pc = "get_raised"
          /\ exc' = WrapRuntimeError(get_exc)
    /\ pc' = "search_raised"
    /\ UNCHANGED <<agentVars, params, retry_total, history, attempts,
                   http_status, get_exc, raw_results, results>>

-----------------------------------------------------------------------------
(* _handle_video_search(): lines 155-218 *)

\* search_videos has returned: its frame (the response, the adapter's Retry
\* object, raw_results) is gone; the request sent and the backend's count stay.
\* (After a raise the frame stays reachable from the exception's traceback.)
ProviderCallOver ==
    /\ retry_total' = 0
    /\ history' = <<>>
    /\ http_status' = 0
    /\ get_exc' = NoExc
    /\ raw_results' = <<>>
    /\ UNCHANGED <<params, attempts>>

\* lines 156-158: results is bound, uploaded_videos = [], the loop starts
FillBegin ==
    /\ pc = "search_returned"
    /\ uploaded_videos' = <<>>
    /\ idx' = 0
    /\ pc' = "loop"
    /\ ProviderCallOver
    /\ UNCHANGED <<concVars, inputVars, search_engine_tool, videos_content, snapshots,
                   results, exc, response, raised>>

\* line 159 is false: the result has no slot
LoopNoSlot ==
    /\ pc = "loop"
    /\ idx < Len(results)
    /\ ~(idx < Len(videos_content.videos))
    /\ idx' = idx + 1
    /\ UNCHANGED <<concVars, inputVars, search_engine_tool, videos_content, snapshots,
                   providerVars, uploaded_videos, pc, response, raised>>

\* lines 160-169: the result is a channel, user or collection page: continue
LoopSkip ==
    /\ pc = "loop"
    /\ idx < Len(results)
    /\ idx < Len(videos_content.videos)
    /\ IsNonVideoYoutube(ExternalUrl(results[idx + 1]))
    /\ idx' = idx + 1
    /\ UNCHANGED <<concVars, inputVars, search_engine_tool, videos_content, snapshots,
                   providerVars, uploaded_videos, pc, response, raised>>

\* a list.insert in place of the item assignment
InsertSlot(videos, i, video_data) ==
    SubSeq(videos, 1, i) \o <<video_data>> \o SubSeq(videos, i + 1, Len(videos))

\* line 178: videos_content.videos[idx] = video_data   (idx is 0-based)
SetSlot(videos, i, video_data) == [videos EXCEPT ![i + 1] = video_data]

\* a fill that is not recorded
ForgetUpload(uploaded, video_data) == uploaded

\* line 181: uploaded_videos.append(video_data)
RecordUpload(uploaded, video_data) == Append(uploaded, video_data)

\* lines 171-181: the slot at idx is overwritten and the video is recorded
LoopFill ==
    /\ pc = "loop"
    /\ idx < Len(results)
    /\ idx < Len(videos_content.videos)
    /\ ~IsNonVideoYoutube(ExternalUrl(results[idx + 1]))
    /\ LET video_data == FilledVideo(results[idx + 1], collection_id)
       IN  /\ videos_content' =
                [videos_content EXCEPT
                    !.videos = SetSlot(videos_content.videos, idx, video_data)]
           /\ uploaded_videos' = RecordUpload(uploaded_videos, video_data)
    /\ idx' = idx + 1
    /\ UNCHANGED <<concVars, inputVars, search_engine_tool, snapshots, providerVars, pc,
                   response, raised>>

\* lines 183-191
FinishNoVideos ==
    /\ pc = "loop"
    /\ idx = Len(results)
    /\ uploaded_videos = <<>>
    /\ videos_content' = [videos_content EXCEPT !.status = "error",
                                                !.status_message = MsgNoneStatus]
    /\ snapshots' = PushUpdate(videos_content')
    /\ Return(AgentResponse("ERROR", MsgNoneReturn, <<>>))
    /\ UNCHANGED <<concVars, inputVars, search_engine_tool, providerVars, loopVars>>

\* lines 193-203
FinishSuccess ==
    /\ pc = "loop"
    /\ idx = Len(results)
    /\ uploaded_videos /= <<>>
    /\ videos_content' =
          [videos_content EXCEPT !.status = "success",
                                 !.status_message = MsgUploaded(Len(uploaded_videos))]
    /\ snapshots' = PushUpdate(videos_content')
    /\ Return(AgentResponse("SUCCESS", MsgDone, uploaded_videos))
    /\ UNCHANGED <<concVars, inputVars, search_engine_tool, providerVars, loopVars>>

\* lines 204-218: the except clause takes a RequestException; any other
\* exception raised by search_videos leaves _handle_video_search and run()
HandleException ==
    /\ pc = "search_raised"
    /\ IF IsInstance(exc, "RequestException")
       THEN /\ videos_content' =
                  [videos_content EXCEPT !.status = "error",
                                         !.status_message = ErrorMessage(exc)]
            /\ snapshots' = PushUpdate(videos_content')
            /\ Return(AgentResponse("ERROR", ErrorMessage(exc), <<>>))
       ELSE /\ raised' = exc
            /\ pc' = "raised"
            /\ UNCHANGED <<videos_content, snapshots, response>>
    /\ UNCHANGED <<concVars, inputVars, search_engine_tool, providerVars, loopVars>>

-----------------------------------------------------------------------------
(* Specifications *)

Next ==
    \/ RunUnsupportedEngine
    \/ RunMissingKey
    \/ RunUnsupportedJobType
    \/ RunPending
    \/ SearchVideosBegin
    \/ HttpAttempt
    \/ SearchVideosReturn
    \/ SearchVideosFail
    \/ FillBegin
    \/ LoopNoSlot
    \/ LoopSkip
    \/ LoopFill
    \/ FinishNoVideos
    \/ FinishSuccess
    \/ HandleException

\* one call of run(), with count absent or in MIN_COUNT..MaxCount
Spec == Init /\ [][Next]_vars

\* the call up to the first statement of search_videos, for every count of the
\* schema
InitPending == InitWith(MIN_COUNT..MAX_COUNT)

NextPending ==
    \/ RunUnsupportedEngine
    \/ RunMissingKey
    \/ RunUnsupportedJobType
    \/ RunPending
    \/ SearchVideosBegin

SpecPending == InitPending /\ [][NextPending]_vars


-----------------------------------------------------------------------------
(* The claims *)

Terminal == pc \in {"returned", "raised"}

LastSnapshot == snapshots[Len(snapshots)]

F503 == [kind |-> "status", code |-> 503]

\* what the provider call last met: the failed attempt that used up the
\* retries, or the response that raise_for_status refused
LastFailure ==
    IF get_exc /= NoExc THEN history[Len(history)]
    ELSE [kind |-> "status", code |-> http_status]

\* C1: whenever the provider call fails in transport (timeout, connection
\* failure, HTTP error, retries used up), run() returns an ERROR response and
\* has emitted the pending and one terminal error snapshot; no exception
\* leaves run() and the run does not end with the pending snapshot alone.
C1_TransportFailureReported ==
    (Terminal /\ exc.type = "RuntimeError") =>
        /\ pc = "returned"
        /\ raised = NoExc
        /\ response.status = "ERROR"
        /\ Len(snapshots) = 2
        /\ LastSnapshot.status = "error"

\* C2: the snapshots of a run are the pending one, then exactly one terminal
\* one: at most two snapshots, the first with status progress, the second with
\* status success or error, and a run that has ended after emitting the
\* pending snapshot has emitted its terminal snapshot.
C2_PendingThenOneTerminal ==
    /\ Len(snapshots) <= 2
    /\ Len(snapshots) >= 1 => snapshots[1].status = "progress"
    /\ Len(snapshots) = 2 => snapshots[2].status \in {"success", "error"}
    /\ (Terminal /\ Len(snapshots) >= 1) =>
          /\ Len(snapshots) = 2
          /\ snapshots[2].status \in {"success", "error"}

\* C3: a failed provider call ends the run with an ERROR response whose
\* message, also the message of the terminal error snapshot, is the timeout
\* message after a timeout, the rate-limit message after an HTTP 429 and the
\* generic message after any other transport failure.
C3_ClaimedMessage ==
    IF LastFailure.kind = "connect_timeout"
    THEN <<"The search is taking longer than expected. Please try again.">>
    ELSE IF LastFailure.kind = "status" /\ LastFailure.code = 429
    THEN <<"Rate limit exceeded. Please try again in a few minutes.">>
    ELSE <<"An error occurred during the video search.">>

C3_FailureClassified ==
    (Terminal /\ exc.type = "RuntimeError") =>
        /\ response.status = "ERROR"
        /\ response.message = C3_ClaimedMessage
        /\ Len(snapshots) = 2
        /\ LastSnapshot.status = "error"
        /\ LastSnapshot.status_message = C3_ClaimedMessage

\* C4: when search_videos rejects the duration (ValueError), the run sets
\* status error, emits a terminal error snapshot and returns an ERROR
\* response; the ValueError does not leave run().
C4_ValidationFailureReported ==
    (Terminal /\ exc.type = "ValueError") =>
        /\ pc = "returned"
        /\ raised = NoExc
        /\ response.status = "ERROR"
        /\ videos_content.status = "error"
        /\ Len(snapshots) = 2
        /\ LastSnapshot.status = "error"


\* C5: the first snapshot carries exactly count results (5 when the request
\* gives no count), each a placeholder with an empty external URL and the name
\* "Loading...", with status progress and the message "Searching for
\* videos..."; it has been emitted by the time search_videos is entered.
C5_RequestedCount ==
    IF "count" \in DOMAIN common_config THEN common_config.count ELSE 5

C5_PendingSnapshot ==
    /\ Len(snapshots) >= 1 =>
          /\ snapshots[1].status = "progress"
          /\ snapshots[1].status_message = <<"Searching for videos...">>
          /\ Len(snapshots[1].videos) = C5_RequestedCount
          /\ \A i \in 1..Len(snapshots[1].videos) :
                /\ snapshots[1].videos[i].external_url = EmptyUrl
                /\ snapshots[1].videos[i].name = "Loading..."
    /\ (params /= NoParams \/ exc /= NoExc \/ attempts > 0) => Len(snapshots) >= 1
    /\ pc = "pending" => (Len(snapshots) = 1 /\ params = NoParams /\ attempts = 0)

C5_Witness ==
    /\ pc = "http"
    /\ common_config = [query |-> "cats", count |-> 50]
    /\ Len(snapshots[1].videos) = 50

\* C6: a run with an unsupported engine, an unsupported job type or no access
\* key ends with an ERROR response and has emitted no snapshot, built no
\* placeholder and not entered the provider's search.
C6_Rejected ==
    \/ engine /= "serp"
    \/ job_type /= "search_videos"
    \/ env_key \in {NONE, ""}

C6_RejectedBeforeAnyWork ==
    C6_Rejected =>
        /\ pc \in {"start", "returned"}
        /\ pc = "returned" => response.status = "ERROR"
        /\ raised = NoExc
        /\ snapshots = <<>>
        /\ videos_content = NoContent
        /\ params = NoParams
        /\ attempts = 0
        /\ exc = NoExc

C6_Witness ==
    /\ pc = "returned"
    /\ engine = "serp"
    /\ env_key = "key-1"
    /\ job_type = "search_images"
    /\ response.status = "ERROR"

\* C7: one search_videos call makes at most 4 HTTP attempts; after 503, 503
\* and a good response it returns the filtered results with 3 attempts made;
\* after four 503 it raises the transport error with 4 attempts made, and no
\* attempt follows the fourth.
C7_AtMostFourAttempts ==
    /\ attempts <= 4
    /\ pc = "http" => attempts <= 3
    /\ (pc = "search_returned" /\ history = <<F503, F503>>) =>
          /\ attempts = 3
          /\ http_status = 200
          /\ exc = NoExc
    /\ (history = <<F503, F503, F503, F503>>) =>
          /\ attempts = 4
          /\ pc \in {"get_raised", "search_raised", "raised"}
          /\ pc /= "get_raised" => exc.type = "RuntimeError"
    /\ (pc \in {"search_raised", "raised"} /\ exc.type = "RuntimeError") =>
          http_status /= 200

C7_Witness ==
    /\ pc = "search_returned"
    /\ history = <<F503, F503>>
    /\ attempts = 3
    /\ Len(results) >= 1

\* C8: a response with an error status outside 429, 500, 502, 503, 504 is not
\* retried: it is never counted as a failed attempt, no attempt follows it,
\* the call fails with the transport error, and when it answers the first
\* request exactly one attempt was made.
C8_Refused ==
    http_status >= 400 /\ http_status \notin {429, 500, 502, 503, 504}

C8_OtherStatusNotRetried ==
    /\ \A i \in 1..Len(history) :
          history[i].kind = "status" => history[i].code \in {429, 500, 502, 503, 504}
    /\ C8_Refused =>
          /\ pc \in {"got_response", "search_raised", "raised"}
          /\ attempts = Len(history) + 1
          /\ history = <<>> => attempts = 1
          /\ pc /= "got_response" => exc.type = "RuntimeError"
          /\ results = <<>>

C8_Witness ==
    /\ pc = "search_raised"
    /\ http_status = 404
    /\ attempts = 1
    /\ exc = Exc("RuntimeError", 0, "HTTPError")

\* C9: a duration that is present and not short, medium or long (the empty
\* string included) makes search_videos raise ValueError with no HTTP attempt
\* made; short, medium and long put dur:s, dur:m and dur:l in the request.
C9_DurationChecked ==
    /\ (job_config.given /\ job_config.duration /= NONE
            /\ job_config.duration \notin {"short", "medium", "long"}) =>
          /\ attempts = 0
          /\ pc \in {"start", "returned", "pending", "search_raised", "raised"}
          /\ pc \in {"search_raised", "raised"} => exc.type = "ValueError"
    /\ (attempts > 0 /\ job_config.given) =>
          /\ job_config.duration = "short" => params.tbs = "dur:s"
          /\ job_config.duration = "medium" => params.tbs = "dur:m"
          /\ job_config.duration = "long" => params.tbs = "dur:l"

\* C10: when search_videos returned and no slot was filled, the run ends with
\* a terminal snapshot of status error and message "No valid videos were found
\* for upload." and returns an ERROR response with that same message.
C10_NoVideosReported ==
    (pc = "returned" /\ Len(snapshots) >= 1 /\ exc = NoExc
        /\ uploaded_videos = <<>>) =>
        /\ response.status = "ERROR"
        /\ response.message = <<"No valid videos were found for upload.">>
        /\ Len(snapshots) = 2
        /\ LastSnapshot.status = "error"
        /\ LastSnapshot.status_message = <<"No valid videos were found for upload.">>


-----------------------------------------------------------------------------
(* Helpers of the claims below, written from the claims' words *)

Min(a, b) == IF a <= b THEN a ELSE b

\* a results entry that is still the placeholder of the pending snapshot
IsPlaceholderEntry(v) == v.external_url = EmptyUrl /\ v.name = "Loading..."

IsFilledEntry(v) == ~IsPlaceholderEntry(v)

\* a YouTube page whose path starts with /channel/, /user/ or /c/
IsYoutubeNonVideoPage(url) ==
    /\ url.netloc \in {"www.youtube.com", "youtube.com"}
    /\ Len(url.path) >= 2
    /\ url.path[1] \in {"channel", "user", "c"}

\* the URL a provider record is shown under
ShownUrl(rec) == IF rec.video_link /= EmptyUrl THEN rec.video_link ELSE rec.link

\* the shown URLs of the first n provider records that are not such pages
RECURSIVE ShownUrls(_, _)
ShownUrls(recs, n) ==
    IF n = 0 THEN <<>>
    ELSE IF IsYoutubeNonVideoPage(ShownUrl(recs[n]))
         THEN ShownUrls(recs, n - 1)
         ELSE Append(ShownUrls(recs, n - 1), ShownUrl(recs[n]))

\* C11: a run that ends in success had k >= 1 records from the provider; its
\* success snapshot holds the filled results in the provider's order, at most
\* min(k, count) of them (records past position count are ignored); the
\* success message reports their number; the returned payload is exactly the
\* filled results and holds no placeholder.
C11_FilledInOrder ==
    (pc = "returned" /\ response.status = "SUCCESS") =>
        LET data == response.data
            n    == Len(response.data)
            k    == Len(results)
        IN  /\ k >= 1
            /\ n >= 1
            /\ n <= Min(k, C5_RequestedCount)
            /\ LastSnapshot.status = "success"
            /\ LastSnapshot.status_message =
                   <<"Uploaded ", ToString(n), " videos successfully.">>
            /\ SelectSeq(LastSnapshot.videos, IsFilledEntry) = data
            /\ \A j \in 1..n : IsFilledEntry(data[j])
            /\ [j \in 1..n |-> data[j].external_url] =
                   ShownUrls(results, Min(k, C5_RequestedCount))

C11_Witness ==
    /\ pc = "returned"
    /\ response.status = "SUCCESS"
    /\ Len(results) = 2
    /\ Len(response.data) = 2
    /\ response.data[1].external_url = WatchUrl
    /\ response.data[2].external_url = FileUrl


\* C12: no record whose primary link contains "channel" or "user" is in what
\* search_videos returns, and no result of any snapshot, of the results
\* sequence or of the returned payload has an external URL that is a YouTube
\* page whose path starts with /channel/, /user/ or /c/.
C12_NamesChannelOrUser(url) == InText("channel", url) \/ InText("user", url)

C12_NoChannelPages ==
    /\ \A i \in 1..Len(results) : ~C12_NamesChannelOrUser(results[i].link)
    /\ pc = "search_returned" =>
          \A i \in 1..Len(raw_results) :
              C12_NamesChannelOrUser(Get(raw_results[i], "link", EmptyUrl)) =>
                  \A j \in 1..Len(results) :
                      results[j].link /= Get(raw_results[i], "link", EmptyUrl)
    /\ \A s \in 1..Len(snapshots) :
          \A i \in 1..Len(snapshots[s].videos) :
              ~IsYoutubeNonVideoPage(snapshots[s].videos[i].external_url)
    /\ \A i \in 1..Len(videos_content.videos) :
          ~IsYoutubeNonVideoPage(videos_content.videos[i].external_url)
    /\ \A i \in 1..Len(response.data) :
          ~IsYoutubeNonVideoPage(response.data[i].external_url)

C12_Witness ==
    /\ pc = "returned"
    /\ response.status = "SUCCESS"
    /\ Len(results) = 2
    /\ results[1].video_link = CollectionUrl
    /\ Len(response.data) = 1


\* C13 as claimed: a raw list free of channel and user links comes out of the
\* filter unchanged (same records, same order), and filtering the output again
\* changes nothing.
C13_FreeOfChannelLinks(raw) ==
    \A i \in 1..Len(raw) : ~C12_NamesChannelOrUser(Get(raw[i], "link", EmptyUrl))

C13_CleanListUnchanged ==
    (pc = "search_returned" /\ C13_FreeOfChannelLinks(raw_results)) =>
        /\ results = raw_results
        /\ FilterResults(results) = results

\* a raw record the filter has a reason to keep: a watch-page link or a
\* direct video link
C13_IsVideoRecord(rec) ==
    \/ /\ Get(rec, "link", EmptyUrl).netloc \in {"www.youtube.com", "youtube.com"}
       /\ Len(Get(rec, "link", EmptyUrl).path) >= 1
       /\ Get(rec, "link", EmptyUrl).path[1] = "watch"
    \/ Get(rec, "video_link", EmptyUrl) /= EmptyUrl

\* C13 (amended): filtering the filter's own output changes nothing; of a raw
\* list free of channel and user links the filter returns, in the same order,
\* exactly the records with a watch-page link or a direct video link, each
\* rewritten to the five keys link, video_link, title, thumbnail, duration
\* (a missing link as "", a missing title, thumbnail or duration as None).
C13_FilterIdempotent ==
    pc = "search_returned" =>
        /\ FilterResults(results) = results
        /\ \A j \in 1..Len(results) :
              DOMAIN results[j] = {"link", "video_link", "title", "thumbnail", "duration"}
        /\ C13_FreeOfChannelLinks(raw_results) =>
              LET kept == SelectSeq(raw_results, C13_IsVideoRecord)
              IN  /\ Len(results) = Len(kept)
                  /\ \A j \in 1..Len(kept) :
                        /\ results[j].link = Get(kept[j], "link", EmptyUrl)
                        /\ results[j].video_link = Get(kept[j], "video_link", EmptyUrl)
                        /\ results[j].title = Get(kept[j], "title", NONE)
                        /\ results[j].thumbnail = Get(kept[j], "thumbnail", NONE)
                        /\ results[j].duration = Get(kept[j], "duration", NONE)

C13_Witness ==
    /\ pc = "search_returned"
    /\ raw_results = <<RawPage, RawDirect>>
    /\ Len(results) = 1
    /\ results[1].video_link = FileUrl


\* the agent passes over this provider record (channel, user or collection page)
IsSkippedRecord(rec) == IsYoutubeNonVideoPage(ShownUrl(rec))

\* C14: when the record at position i is skipped, its slot stays a placeholder
\* and the slot index is not advanced: the next record, when it is not
\* skipped, is written to the slot the skipped record was aimed at.
C14_SkipKeepsSlotIndex ==
    pc \in {"loop", "returned"} =>
        \A i \in 1..Len(results) :
            (/\ i + 1 <= idx
             /\ i + 1 <= Len(results)
             /\ i <= Len(videos_content.videos)
             /\ IsSkippedRecord(results[i])
             /\ ~IsSkippedRecord(results[i + 1])) =>
                videos_content.videos[i].external_url = ShownUrl(results[i + 1])


\* C15: in every filled result the name is the provider's title when the
\* record has one and "Untitled Video" when it has none, the external URL is
\* the direct video link when that is not empty and the primary link
\* otherwise, and collection_id is the request's.
C15_FilledFields ==
    pc \in {"loop", "returned"} =>
        \A i \in 1..Min(Len(results), Len(videos_content.videos)) :
            IsFilledEntry(videos_content.videos[i]) =>
                /\ videos_content.videos[i].name =
                       (IF results[i].title /= NONE THEN results[i].title
                        ELSE "Untitled Video")
                /\ videos_content.videos[i].external_url = ShownUrl(results[i])
                /\ videos_content.videos[i].collection_id =
                       (IF job_config.given THEN job_config.collection_id ELSE NONE)


\* C16: from the pending snapshot on the results sequence has exactly count
\* entries, in the object and in every snapshot; a step changes a slot only
\* from the placeholder to a filled result, so no slot is written twice; and
\* a slot whose record is missing or skipped is still a placeholder in the
\* terminal snapshot.
C16_CountKept ==
    Len(snapshots) >= 1 =>
        /\ Len(videos_content.videos) = C5_RequestedCount
        /\ \A s \in 1..Len(snapshots) :
              Len(snapshots[s].videos) = C5_RequestedCount
        /\ (Terminal /\ Len(snapshots) = 2) =>
              \A i \in 1..Len(LastSnapshot.videos) :
                  (i > Len(results) \/ IsSkippedRecord(results[i])) =>
                      IsPlaceholderEntry(LastSnapshot.videos[i])

C16_SlotWrittenOnce ==
    pc /= "start" =>
        /\ Len(videos_content'.videos) = Len(videos_content.videos)
        /\ \A i \in 1..Len(videos_content.videos) :
              videos_content'.videos[i] /= videos_content.videos[i] =>
                  /\ IsPlaceholderEntry(videos_content.videos[i])
                  /\ IsFilledEntry(videos_content'.videos[i])

C16_SlotsKept == [](C16_CountKept) /\ [][C16_SlotWrittenOnce]_vars

C16_Witness ==
    /\ pc = "returned"
    /\ response.status = "SUCCESS"
    /\ Len(LastSnapshot.videos) = 3
    /\ IsPlaceholderEntry(LastSnapshot.videos[1])
    /\ IsFilledEntry(LastSnapshot.videos[2])
    /\ IsPlaceholderEntry(LastSnapshot.videos[3])


\* C17: every snapshot with status error carries exactly the count
\* placeholders of the pending snapshot, which is still the first snapshot of
\* the stream; only status and message differ from it.
C17_ErrorKeepsPlaceholders ==
    \A s \in 1..Len(snapshots) :
        snapshots[s].status = "error" =>
            /\ s = 2
            /\ snapshots[1].status = "progress"
            /\ snapshots[s].videos = snapshots[1].videos
            /\ Len(snapshots[s].videos) = C5_RequestedCount
            /\ \A i \in 1..Len(snapshots[s].videos) :
                  IsPlaceholderEntry(snapshots[s].videos[i])
            /\ snapshots[s].status_message /= snapshots[1].status_message

C17_Witness ==
    /\ pc = "returned"
    /\ Len(snapshots) = 2
    /\ LastSnapshot.status = "error"
    /\ Len(results) = 2
    /\ Len(LastSnapshot.videos) = 3


\* C18: a request with a supported engine and a job type other than
\* "search_videos" fails with the unsupported-job-type error, whether or not
\* the access key is set, and no provider is constructed for it.
C18_JobTypeCheckedFirst ==
    (pc = "returned" /\ engine = "serp" /\ job_type /= "search_videos") =>
        /\ response.status = "ERROR"
        /\ response.message = <<"Unsupported job type: ", job_type, ".">>
        /\ search_engine_tool = NONE


-----------------------------------------------------------------------------
(* Two calls of run() at once.  Each request is served by its own agent
   instance; the calls' statements interleave in any order.  The objects a
   call creates live in cheap and ctools and are reached through the ids the
   call holds, so a write through one call's reference is seen through every
   reference to the same object. *)

Runs == {1, 2}

TwoDurations == {NONE, "huge"}
TwoBodies    == SeqsUpTo({RawWatch, RawCollection}, MaxRaw)

\* the count each request asks for, and the collection it uploads to
CountOf(r) == r
CollectionOf(r) == IF r = 1 THEN "col-1" ELSE "col-2"

\* the agent instance (and with it the output message) that serves call r:
\* one instance per request
AgentOf(r) == r

\* an object that is made once and handed to every call
SharedId(objects) == IF objects = <<>> THEN Len(objects) + 1 ELSE Len(objects)

\* a constructor call makes an object that no earlier reference points to
NewId(objects) == Len(objects) + 1

\* the object with this id is (re)initialised
Store(objects, id, obj) ==
    IF id <= Len(objects) THEN [objects EXCEPT ![id] = obj]
    ELSE Append(objects, obj)

\* line 119: SerpAPI(api_key=...), with its own requests.Session
NewSerpAPI == [sent |-> 0]

\* what the session receives on push_update: the contents as they are now
Deref(ids, objects) == [i \in 1..Len(ids) |-> objects[ids[i]]]

NoRun ==
    [pc |-> "start", count |-> 0, duration |-> NONE, collection_id |-> NONE,
     tool |-> 0, vc |-> 0, retry_total |-> 0, http_status |-> 0,
     get_exc |-> NoExc, results |-> <<>>, exc |-> NoExc, idx |-> 0,
     uploaded_videos |-> <<>>, response |-> NoResponse, raised |-> NoExc]

InitTwo ==
    /\ engine = "serp"
    /\ job_type = "search_videos"
    /\ common_config = [query |-> "cats"]
    /\ job_config = NoJobConfig
    /\ env_key = "key-1"
    /\ pc = "start"
    /\ search_engine_tool = NONE
    /\ videos_content = NoContent
    /\ snapshots = <<>>
    /\ params = NoParams
    /\ retry_total = 0
    /\ history = <<>>
    /\ attempts = 0
    /\ http_status = 0
    /\ get_exc = NoExc
    /\ raw_results = <<>>
    /\ results = <<>>
    /\ exc = NoExc
    /\ idx = 0
    /\ uploaded_videos = <<>>
    /\ response = NoResponse
    /\ raised = NoExc
    /\ \E d \in [Runs -> TwoDurations] :
          cruns = [r \in Runs |->
                      [NoRun EXCEPT !.count = CountOf(r), !.duration = d[r],
                                    !.collection_id = CollectionOf(r)]]
    /\ cheap = <<>>
    /\ ctools = <<>>
    /\ cout = [a \in {AgentOf(r) : r \in Runs} |-> <<>>]
    /\ cstream = [a \in {AgentOf(r) : r \in Runs} |-> <<>>]

singleVars == <<inputVars, pc, search_engine_tool, videos_content, snapshots,
                providerVars, loopVars, response, raised>>

\* the content object call r writes
ContentOf(r) == cheap[cruns[r].vc]

\* push_update of call r's agent, after the heap has become objects
PushUpdateOf(r, objects, out) ==
    [cstream EXCEPT ![AgentOf(r)] = Append(@, Deref(out[AgentOf(r)], objects))]

\* a write to the content object of call r, followed by push_update
WriteAndPush(r, obj) ==
    /\ cheap' = [cheap EXCEPT ![cruns[r].vc] = obj]
    /\ cstream' = PushUpdateOf(r, cheap', cout)
    /\ UNCHANGED cout

\* lines 119-127 and 137-153
TwoRunPending(r) ==
    /\ cruns[r].pc = "start"
    /\ LET tool == NewId(ctools)
           vc   == NewId(cheap)
       IN  /\ ctools' = Store(ctools, tool, NewSerpAPI)
           /\ cheap' = Store(cheap, vc,
                  VideosContent("progress", MsgSearching,
                                Placeholders(cruns[r].count)))
           /\ cout' = [cout EXCEPT ![AgentOf(r)] = Append(@, vc)]
           /\ cstream' = PushUpdateOf(r, cheap', cout')
           /\ cruns' = [cruns EXCEPT ![r] =
                  [@ EXCEPT !.tool = tool, !.vc = vc, !.pc = "pending"]]
    /\ UNCHANGED singleVars

\* serp.py lines 31-50
TwoSearchVideosBegin(r) ==
    /\ cruns[r].pc = "pending"
    /\ cruns' = [cruns EXCEPT ![r] =
          IF Truthy(@.duration) /\ @.duration \notin DOMAIN DurationMapping
          THEN [@ EXCEPT !.exc = Exc("ValueError", 0, NONE),
                         !.pc = "search_raised"]
          ELSE [@ EXCEPT !.retry_total = RetryTotal, !.pc = "http"]]
    /\ UNCHANGED <<singleVars, cheap, ctools, cout, cstream>>

\* serp.py line 53, one attempt through the session of call r's provider
TwoHttpAttempt(r) ==
    /\ cruns[r].pc = "http"
    /\ ctools' = [ctools EXCEPT ![cruns[r].tool].sent = @ + 1]
    /\ \E o \in Outcomes :
          cruns' = [cruns EXCEPT ![r] =
              IF ~IsRetriable(o)
              THEN [@ EXCEPT !.http_status = o.code, !.pc = "got_response"]
              ELSE IF IsExhausted(@.retry_total - 1)
                   THEN [@ EXCEPT !.retry_total = @ - 1,
                                  !.get_exc = ExhaustedExc(o),
                                  !.pc = "get_raised"]
                   ELSE [@ EXCEPT !.retry_total = @ - 1]]
    /\ UNCHANGED <<singleVars, cheap, cout, cstream>>

\* serp.py lines 54-77
TwoSearchVideosReturn(r) ==
    /\ cruns[r].pc = "got_response"
    /\ ~RaisesForStatus(cruns[r].http_status)
    /\ \E body \in TwoBodies :
          cruns' = [cruns EXCEPT ![r] =
              [@ EXCEPT !.results = FilterResults(body),
                        !.pc = "search_returned"]]
    /\ UNCHANGED <<singleVars, cheap, ctools, cout, cstream>>

\* serp.py lines 54 and 79-80
TwoSearchVideosFail(r) ==
    /\ \/ /\ cruns[r].pc = "got_response"
          /\ RaisesForStatus(cruns[r].http_status)
          /\ cruns' = [cruns EXCEPT ![r] =
                [@ EXCEPT !.exc = WrapRuntimeError(
                                      Exc("HTTPError", cruns[r].http_status, NONE)),
                          !.pc = "search_raised"]]
       \/ /\ cruns[r].pc = "get_raised"
          /\ cruns' = [cruns EXCEPT ![r] =
                [@ EXCEPT !.exc = WrapRuntimeError(cruns[r].get_exc),
                          !.pc = "search_raised"]]
    /\ UNCHANGED <<singleVars, cheap, ctools, cout, cstream>>

\* lines 156-158
TwoFillBegin(r) ==
    /\ cruns[r].pc = "search_returned"
    /\ cruns' = [cruns EXCEPT ![r] =
          [@ EXCEPT !.uploaded_videos = <<>>, !.idx = 0, !.pc = "loop",
                    !.retry_total = 0, !.http_status = 0]]
    /\ UNCHANGED <<singleVars, cheap, ctools, cout, cstream>>

\* lines 159-169: no slot for the result, or the result is skipped
TwoLoopPass(r) ==
    /\ cruns[r].pc = "loop"
    /\ cruns[r].idx < Len(cruns[r].results)
    /\ \/ ~(cruns[r].idx < Len(ContentOf(r).videos))
       \/ IsNonVideoYoutube(ExternalUrl(cruns[r].results[cruns[r].idx + 1]))
    /\ cruns' = [cruns EXCEPT ![r].idx = @ + 1]
    /\ UNCHANGED <<singleVars, cheap, ctools, cout, cstream>>

\* lines 171-181
TwoLoopFill(r) ==
    /\ cruns[r].pc = "loop"
    /\ cruns[r].idx < Len(cruns[r].results)
    /\ cruns[r].idx < Len(ContentOf(r).videos)
    /\ ~IsNonVideoYoutube(ExternalUrl(cruns[r].results[cruns[r].idx + 1]))
    /\ LET video_data == FilledVideo(cruns[r].results[cruns[r].idx + 1],
                                     cruns[r].collection_id)
       IN  /\ cheap' = [cheap EXCEPT ![cruns[r].vc].videos =
                            SetSlot(@, cruns[r].idx, video_data)]
           /\ cruns' = [cruns EXCEPT ![r] =
                  [@ EXCEPT !.uploaded_videos = RecordUpload(@, video_data),
                            !.idx = @ + 1]]
    /\ UNCHANGED <<singleVars, ctools, cout, cstream>>

\* lines 183-191
TwoFinishNoVideos(r) ==
    /\ cruns[r].pc = "loop"
    /\ cruns[r].idx = Len(cruns[r].results)
    /\ cruns[r].uploaded_videos = <<>>
    /\ WriteAndPush(r, [ContentOf(r) EXCEPT !.status = "error",
                                            !.status_message = MsgNoneStatus])
    /\ cruns' = [cruns EXCEPT ![r] =
          [@ EXCEPT !.response = AgentResponse("ERROR", MsgNoneReturn, <<>>),
                    !.pc = "returned"]]
    /\ UNCHANGED <<singleVars, ctools>>

\* lines 193-203
TwoFinishSuccess(r) ==
    /\ cruns[r].pc = "loop"
    /\ cruns[r].idx = Len(cruns[r].results)
    /\ cruns[r].uploaded_videos /= <<>>
    /\ WriteAndPush(r, [ContentOf(r) EXCEPT
                           !.status = "success",
                           !.status_message =
                               MsgUploaded(Len(cruns[r].uploaded_videos))])
    /\ cruns' = [cruns EXCEPT ![r] =
          [@ EXCEPT !.response = AgentResponse("SUCCESS", MsgDone,
                                               cruns[r].uploaded_videos),
                    !.pc = "returned"]]
    /\ UNCHANGED <<singleVars, ctools>>

\* lines 204-218
TwoHandleException(r) ==
    /\ cruns[r].pc = "search_raised"
    /\ IF IsInstance(cruns[r].exc, "RequestException")
       THEN /\ WriteAndPush(r, [ContentOf(r) EXCEPT
                                   !.status = "error",
                                   !.status_message = ErrorMessage(cruns[r].exc)])
            /\ cruns' = [cruns EXCEPT ![r] =
                  [@ EXCEPT !.response = AgentResponse(
                                "ERROR", ErrorMessage(cruns[r].exc), <<>>),
                            !.pc = "returned"]]
       ELSE /\ cruns' = [cruns EXCEPT ![r] =
                  [@ EXCEPT !.raised = cruns[r].exc, !.pc = "raised"]]
            /\ UNCHANGED <<cheap, cout, cstream>>
    /\ UNCHANGED <<singleVars, ctools>>

NextTwo ==
    \E r \in Runs :
        \/ TwoRunPending(r)
        \/ TwoSearchVideosBegin(r)
        \/ TwoHttpAttempt(r)
        \/ TwoSearchVideosReturn(r)
        \/ TwoSearchVideosFail(r)
        \/ TwoFillBegin(r)
        \/ TwoLoopPass(r)
        \/ TwoLoopFill(r)
        \/ TwoFinishNoVideos(r)
        \/ TwoFinishSuccess(r)
        \/ TwoHandleException(r)

\* two requests, each with its own agent instance, in every interleaving
SpecTwo == InitTwo /\ [][NextTwo]_vars


\* C19: two calls of run() that execute at once share no mutable state.  Each
\* call holds its own results object and its own provider object; every
\* snapshot emitted for a call holds that call's one results object, with as
\* many entries as that call asked for, filled only from that call's results
\* and for that call's collection, the first of them the call's placeholders,
\* the last of a returned call agreeing with the call's response; and a step
\* of the other call changes neither the call's snapshots nor its objects.
C19_OwnObjects ==
    \A r, q \in Runs :
        (r /= q /\ cruns[r].pc /= "start" /\ cruns[q].pc /= "start") =>
            /\ cruns[r].vc /= cruns[q].vc
            /\ cruns[r].tool /= cruns[q].tool

C19_FromOwnResults(r, v) ==
    \E k \in 1..Len(cruns[r].results) :
        v = FilledVideo(cruns[r].results[k], cruns[r].collection_id)

C19_OwnSnapshot(r, i) ==
    LET s == cstream[AgentOf(r)][i]
    IN  /\ Len(s) = 1
        /\ Len(s[1].videos) = cruns[r].count
        /\ \A k \in 1..Len(s[1].videos) :
              IsFilledEntry(s[1].videos[k]) => C19_FromOwnResults(r, s[1].videos[k])
        /\ (i = 1) => s[1] = VideosContent("progress", MsgSearching,
                                           Placeholders(cruns[r].count))

C19_OwnOutcome(r) ==
    LET s    == cstream[AgentOf(r)]
        last == s[Len(s)][1]
    IN  cruns[r].pc = "returned" =>
            /\ Len(s) = 2
            /\ (cruns[r].response.status = "SUCCESS") <=> (last.status = "success")
            /\ (cruns[r].response.status = "ERROR") <=> (last.status = "error")
            /\ SelectSeq(last.videos, IsFilledEntry) = cruns[r].response.data

C19_OwnSnapshots ==
    \A r \in DOMAIN cruns :
        /\ \A i \in 1..Len(cstream[AgentOf(r)]) : C19_OwnSnapshot(r, i)
        /\ C19_OwnOutcome(r)

C19_NoInterference ==
    \A r \in DOMAIN cruns :
        (cruns'[r] = cruns[r]) =>
            /\ cstream'[AgentOf(r)] = cstream[AgentOf(r)]
            /\ (cruns[r].pc /= "start") =>
                  /\ cheap'[cruns[r].vc] = cheap[cruns[r].vc]
                  /\ ctools'[cruns[r].tool] = ctools[cruns[r].tool]

C20_Emitted == Len(snapshots) = 2

C20_SnapshotAgreesWithReturn ==
    C20_Emitted =>
        /\ pc = "returned"
        /\ (LastSnapshot.status = "success") <=> (response.status = "SUCCESS")
        /\ (response.status = "SUCCESS") =>
              /\ response.data = SelectSeq(LastSnapshot.videos, IsFilledEntry)
              /\ LastSnapshot.status_message =
                    <<"Uploaded ", ToString(Len(response.data)),
                      " videos successfully.">>

\* a success whose terminal snapshot holds two videos and a placeholder
C20_Witness ==
    /\ C20_Emitted
    /\ response.status = "SUCCESS"
    /\ Len(response.data) = 2
    /\ \E k \in 1..Len(LastSnapshot.videos) :
          IsPlaceholderEntry(LastSnapshot.videos[k])

=============================================================================
